---- MODULE Spec2Model ----
(***************************************************************************)
(* State-machine model of the French form-line and linkage extractors of   *)
(* wiktextract (extractor/fr/form_line.py, extractor/fr/linkage.py) and of *)
(* the page orchestrator that feeds them.                                  *)
(*                                                                         *)
(* Text is modelled as a sequence of tokens.  A token stands for a run of  *)
(* characters that the string operations of the code never cut: "(" and    *)
(* ")" are tokens of their own, " " is whitespace, "," and "/" are the     *)
(* word separators, and a word such as "Canada" is one token.  Python's    *)
(* strip, startswith, endswith, removesuffix, split and the regular        *)
(* expression of process_linkage_list are computed on these tokens.        *)
(* Non-ASCII letters of the source are written in ASCII: "equiv-pour" is   *)
(* the template with the accented e, "-- " is the em-dash prefix.          *)
(***************************************************************************)
EXTENDS Integers, Sequences, FiniteSets, TLC

VARIABLES
    version,            \* which form_line.py is installed: "model" or "dict"
    page_data,          \* list[WordEntry]: the shared list of entries
    heap,               \* the list objects that the forms fields refer to
    cur_lang,           \* orchestrator: language section being traversed
    pc,                 \* which call is running
    pre_template_name,  \* extract_form_line: local of the same name
    cur_node,           \* process_conj_template: template_node
    links,              \* process_conj_template: links still to visit
    linkage_type,       \* process_linkage_list: parameter
    sense_text,         \* process_linkage_list: local
    sense_index,        \* process_linkage_list: local
    pending_tag,        \* process_linkage_list: local
    err,                \* exception raised by the running call, "" if none
    result,             \* parse_page: the returned list
    sections,           \* history: the part-of-speech sections traversed so far
    clean,              \* clean_value: the value given and the value returned
    nnodes,             \* number of nodes and list items processed so far
    pre,                \* history: value of page_data before the last step
    last                \* history: the last step and its input

vars == <<version, page_data, heap, cur_lang, pc, pre_template_name, cur_node, links,
          linkage_type, sense_text, sense_index, pending_tag, err, result,
          sections, clean, nnodes, pre, last>>

(***************************************************************************)
(* Bounds of the model.                                                    *)
(***************************************************************************)
MaxEntries == 2
MaxNodes == 2

(***************************************************************************)
(* Python string operations, on token sequences.                           *)
(***************************************************************************)
Whitespace == {" "}
Parens == {"(", ")"}

RECURSIVE lstrip(_, _)
lstrip(s, chars) ==
    IF s # <<>> /\ Head(s) \in chars THEN lstrip(Tail(s), chars) ELSE s

RECURSIVE rstrip(_, _)
rstrip(s, chars) ==
    IF s # <<>> /\ s[Len(s)] \in chars
    THEN rstrip(SubSeq(s, 1, Len(s) - 1), chars)
    ELSE s

strip(s, chars) == rstrip(lstrip(s, chars), chars)

startswith(s, p) == Len(p) <= Len(s) /\ SubSeq(s, 1, Len(p)) = p

endswith(s, p) == Len(p) <= Len(s) /\ SubSeq(s, Len(s) - Len(p) + 1, Len(s)) = p

removesuffix(s, p) ==
    IF p # <<>> /\ endswith(s, p) THEN SubSeq(s, 1, Len(s) - Len(p)) ELSE s

Last(s) == s[Len(s)]

(***************************************************************************)
(* Records.  A Form is (form, tags, source), a Sound is the field that was *)
(* given (ipa or zh_pron), its text and its tags.                          *)
(***************************************************************************)
Form(form, tags, source) == [form |-> form, tags |-> tags, source |-> source]

Sound(field, text, tags) == [field |-> field, text |-> text, tags |-> tags]

ListFields == {"sounds", "tags", "forms"}

LinkageFields == {"synonyms", "derived"}

\* faulty variant: the entry is created without its sounds list
WordEntry_no_sounds(word, lang, pos, ref) ==
    [word |-> word, lang |-> lang.name, lang_code |-> lang.code, pos |-> pos,
     lists |-> ListFields \ {"sounds"}, forms |-> ref, sounds |-> <<>>, tags |-> <<>>,
     linkages |-> [t \in LinkageFields |-> <<>>], redirects |-> <<>>,
     senses |-> <<>>, head_tags |-> <<>>]

\* The page orchestrator appends a fresh entry: every list field exists and is
\* empty, the forms list is a new list object.
WordEntry(word, lang, pos, ref) ==
    [word |-> word, lang |-> lang.name, lang_code |-> lang.code, pos |-> pos,
     lists |-> ListFields, forms |-> ref, sounds |-> <<>>, tags |-> <<>>,
     linkages |-> [t \in LinkageFields |-> <<>>], redirects |-> <<>>,
     senses |-> <<>>, head_tags |-> <<>>]

\* The field values of an entry, the forms list read through its reference.
EntryValue(e, hp) == [e EXCEPT !.forms = hp[e.forms]]

PageValue(pd, hp) == [i \in 1..Len(pd) |-> EntryValue(pd[i], hp)]

(***************************************************************************)
(* The running call as a value: page_data, the heap of forms lists and the *)
(* exception raised so far.  Once an exception is raised nothing more is   *)
(* done.                                                                   *)
(***************************************************************************)
Machine == [pd |-> page_data, hp |-> heap, err |-> ""]

\* page_data[-1].<field>.append(x) for sounds and tags
append_to(m, field, x) ==
    LET n == Len(m.pd) IN
    IF m.err # "" THEN m
    ELSE IF field \notin m.pd[n].lists THEN [m EXCEPT !.err = "KeyError"]
    ELSE IF field = "sounds" THEN [m EXCEPT !.pd[n].sounds = Append(@, x)]
    ELSE [m EXCEPT !.pd[n].tags = Append(@, x)]

\* page_data[-1].forms.append(x): the list object is changed in place
append_form(m, x) ==
    LET n == Len(m.pd) IN
    IF m.err # "" THEN m
    ELSE IF "forms" \notin m.pd[n].lists THEN [m EXCEPT !.err = "KeyError"]
    ELSE [m EXCEPT !.hp[m.pd[n].forms] = Append(@, x)]

\* page_data[-1].sounds[-1].tags.append(x)
append_sound_tag(m, x) ==
    LET n == Len(m.pd)
        k == Len(m.pd[n].sounds) IN
    IF m.err # "" THEN m
    ELSE [m EXCEPT !.pd[n].sounds[k].tags = Append(@, x)]

(***************************************************************************)
(* Inputs of extract_form_line.  A node is what the parser gives (kind,    *)
(* template name) together with what the external calls return for it:     *)
(* text is the result of clean_node / process_pron_template, children are  *)
(* the children of the expanded node.                                      *)
(***************************************************************************)
Node(kind, name, text, children) ==
    [kind |-> kind, name |-> name, text |-> text, children |-> children]

Child(k, name, text, largs) == [k |-> k, name |-> name, text |-> text, largs |-> largs]

NoNode == Node("none", <<>>, <<>>, <<>>)

PRON_TEMPLATES == {<<"pron">>, <<"prononciation">>, <<"//">>}

ConjTitleA == <<"Conjugaison:", "francais", "/", "aimer">>
ConjTitleB == <<"Conjugaison:", "finir">>
ConjTitleGroup == <<"Conjugaison:", "francais", "/", "Premier groupe">>
OtherTitle == <<"Annexe:", "verbes">>

LinkA == Child("link", <<>>, ConjTitleA, 1)
LinkB == Child("link", <<>>, ConjTitleB, 1)
LinkGroup == Child("link", <<>>, ConjTitleGroup, 1)
LinkOther == Child("link", <<>>, OtherTitle, 1)
LinkNoArgs == Child("link", <<>>, <<>>, 0)

SeeConj == "(voir la conjugaison)"

PronNodes ==
    {Node("template", <<"pron">>, t, <<>>) : t \in {<<>>, <<"\\a\\">>}}

\* the "arg" children are the template parameters 1 and 2 of the node
EquivPourNodes ==
    {Node("template", <<"equiv-pour">>, <<>>,
          <<Child("arg", <<"1">>, <<"une femme">>, 0),
            Child("arg", <<"2">>, <<"fa">>, 0),
            Child("italic", <<>>, <<"(", "pour une femme", ")">>, 0),
            Child("bdi", <<>>, <<"fa">>, 0),
            Child("span", <<>>, <<"x">>, 0),
            Child("bdi", <<>>, <<>>, 0)>>)}

ZhMotNodes ==
    {Node("template", <<"zh-mot", "-s">>, <<>>,
          <<Child("template", <<"Lang">>, <<"pinyin">>, 0),
            Child("template", <<"pron">>, <<>>, 0)>>)}

JaMotNodes ==
    {Node("template", <<"ja-", "mot">>, <<>>, c) : c \in {
        <<Child("span", <<>>, <<"w">>, 0), Child("span", <<>>, <<"fa">>, 0)>>,
        <<Child("span", <<>>, <<"w">>, 0)>>}}

ConjNodes ==
    {Node("template", <<"conj">>, <<"1er groupe", " ", SeeConj>>, <<LinkA, LinkB>>),
     Node("template", <<"conjugaison">>, <<SeeConj>>, <<LinkGroup, LinkNoArgs>>),
     Node("template", <<"ja-", "verbe", "-conj">>,
          <<"godan", " ", "(conjugaison)">>, <<LinkOther, LinkB>>)}

TagNodes ==
    {Node("template", <<"m">>, <<"(", "Canada", ")">>, <<>>),
     Node("template", <<"m">>, <<"(", ")">>, <<>>),
     Node("template", <<"ja-", "kanji">>, <<"masculin">>, <<>>)}

ItalicNodes == {Node("italic", <<>>, t, <<>>) : t \in {<<"ou">>, <<"familier">>}}

OtherNodes == {Node("text", <<>>, <<" ">>, <<>>)}

FormLineNodes ==
    PronNodes \cup EquivPourNodes \cup ZhMotNodes \cup JaMotNodes
        \cup ConjNodes \cup TagNodes \cup ItalicNodes \cup OtherNodes

(***************************************************************************)
(* extract_form_line: the dispatch on the template name.                   *)
(***************************************************************************)
\* faulty variant: every name that starts with "ja-" goes to the conjugation handler
Handler_ja_prefix(name) ==
    IF name \in PRON_TEMPLATES THEN "pron"
    ELSE IF name = <<"equiv-pour">> THEN "equiv_pour"
    ELSE IF startswith(name, <<"zh-mot">>) THEN "zh_mot"
    ELSE IF \/ name \in {<<"conj">>, <<"conjugaison">>}
            \/ startswith(name, <<"ja-">>) THEN "conj"
    ELSE IF name = <<"ja-", "mot">> THEN "ja_mot"
    ELSE "tag"

Handler(name) ==
    IF name \in PRON_TEMPLATES THEN "pron"
    ELSE IF name = <<"equiv-pour">> THEN "equiv_pour"
    ELSE IF startswith(name, <<"zh-mot">>) THEN "zh_mot"
    ELSE IF name = <<"ja-", "mot">> THEN "ja_mot"
    ELSE IF \/ name \in {<<"conj">>, <<"conjugaison">>}
            \/ startswith(name, <<"ja-", "adj-">>)
            \/ startswith(name, <<"ja-", "verbe">>) THEN "conj"
    ELSE "tag"

(***************************************************************************)
(* The template handlers of form_line.py, as functions of the machine.     *)
(***************************************************************************)
SourceEquivPour == <<"form line template 'equiv-pour'">>

\* lines 28-31: a pronunciation template adds a sound unless its text is empty
process_pron(m, node) ==
    IF Len(node.text) > 0
    THEN append_to(m, "sounds", Sound("ipa", node.text, <<>>))
    ELSE m

RECURSIVE equiv_pour_loop(_, _, _)
equiv_pour_loop(m, children, form_tag) ==
    IF children = <<>> THEN m
    ELSE LET child == Head(children) IN
         IF child.k = "italic"
         THEN equiv_pour_loop(m, Tail(children),
                              strip(child.text, Parens \cup Whitespace))
         ELSE IF child.k = "bdi"
         THEN LET form_data ==
                      Form(child.text,
                           IF Len(form_tag) > 0 THEN <<form_tag>> ELSE <<>>,
                           SourceEquivPour)
              IN equiv_pour_loop(
                     IF Len(form_data.form) > 0 THEN append_form(m, form_data) ELSE m,
                     Tail(children), form_tag)
         ELSE equiv_pour_loop(m, Tail(children), form_tag)

process_equiv_pour_template(m, node) ==
    equiv_pour_loop(m,
        SelectSeq(node.children, LAMBDA c : c.k \in {"italic", "bdi", "span"}),
        <<>>)

lower(name) == [i \in 1..Len(name) |-> IF name[i] = "Lang" THEN "lang" ELSE name[i]]

RECURSIVE zh_mot_loop(_, _)
zh_mot_loop(m, templates) ==
    IF templates = <<>> THEN m
    ELSE LET template_node == Head(templates) IN
         IF lower(template_node.name) = <<"lang">>
         THEN zh_mot_loop(
                  append_to(m, "sounds",
                            Sound("zh_pron", template_node.text, <<"Pinyin">>)),
                  Tail(templates))
         ELSE IF template_node.name \in {<<"pron">>, <<"prononciation">>}
         THEN zh_mot_loop(
                  append_to(m, "sounds", Sound("ipa", template_node.text, <<>>)),
                  Tail(templates))
         ELSE zh_mot_loop(m, Tail(templates))

process_zh_mot_template(m, node) ==
    zh_mot_loop(m, SelectSeq(node.children, LAMBDA c : c.k = "template"))

\* faulty variant: the romanization is appended without looking at the existing forms
process_ja_mot_template_always(m, node) ==
    IF Len(node.children) >= 2 /\ node.children[2].k = "span"
    THEN append_form(m, Form(node.children[2].text, <<"romanization">>, <<>>))
    ELSE m

\* lines 120-133: find_html("span", with_index=True) gives each span child with
\* its position among the children; only the child at position 1 is looked at.
process_ja_mot_template(m, node) ==
    LET n == Len(m.pd)
        existing_forms == {m.hp[m.pd[n].forms][i].form :
                               i \in 1..Len(m.hp[m.pd[n].forms])}
    IN IF Len(node.children) >= 2 /\ node.children[2].k = "span"
       THEN LET form_text == node.children[2].text IN
            IF form_text \notin existing_forms
            THEN append_form(m, Form(form_text, <<"romanization">>, <<>>))
            ELSE m
       ELSE m

\* lines 44-54: any other template is cleaned into a tag
process_tag(m, node, pre_name) ==
    LET tag == node.text IN
    IF /\ startswith(tag, <<"(">>)
       /\ endswith(tag, <<")">>)
       /\ pre_name \in PRON_TEMPLATES
       /\ Len(Last(m.pd).sounds) > 0
    THEN append_sound_tag(m, strip(tag, Parens))
    ELSE IF Len(strip(tag, Parens)) > 0
    THEN append_to(m, "tags", strip(tag, Parens))
    ELSE m

\* lines 57-60
process_italic(m, node) ==
    IF node.text # <<"ou">> THEN append_to(m, "tags", node.text) ELSE m

(***************************************************************************)
(* process_conj_template, one link at a time.                              *)
(***************************************************************************)
\* conj_title.split("/", 1)[-1]
RECURSIVE after_first_slash(_)
after_first_slash(s) ==
    IF s = <<>> THEN <<>>
    ELSE IF Head(s) = "/" THEN Tail(s)
    ELSE after_first_slash(Tail(s))

conj_word(conj_title) ==
    IF \E i \in 1..Len(conj_title) : conj_title[i] = "/"
    THEN after_first_slash(conj_title)
    ELSE conj_title

GroupPages == {<<"Premier groupe">>, <<"Deuxieme groupe">>, <<"Troisieme groupe">>}

\* lines 146-157: the links that are skipped
link_filtered(link) ==
    \/ link.largs = 0
    \/ ~startswith(link.text, <<"Conjugaison:">>)
    \/ conj_word(link.text) \in GroupPages

\* faulty variant: the part of speech of the two entries is not compared
reuse_previous_forms_any_pos(pd, hp, conj_title) ==
    LET n == Len(pd) IN
    /\ n > 1
    /\ pd[n - 1].lang_code = pd[n].lang_code
    /\ Len(hp[pd[n - 1].forms]) > 0
    /\ Last(hp[pd[n - 1].forms]).source = conj_title

\* lines 158-164
reuse_previous_forms(pd, hp, conj_title) ==
    LET n == Len(pd) IN
    /\ n > 1
    /\ pd[n - 1].lang_code = pd[n].lang_code
    /\ pd[n - 1].pos = pd[n].pos
    /\ Len(hp[pd[n - 1].forms]) > 0
    /\ Last(hp[pd[n - 1].forms]).source = conj_title

\* extract_conjugation(wxr, entry, conj_title) reads the conjugation page and
\* appends the forms it finds there, each with the page title as its source.
ConjugationPages == {<<>>, <<"ca">>}

RECURSIVE extract_conjugation(_, _, _)
extract_conjugation(m, conj_title, found) ==
    IF found = <<>> THEN m
    ELSE extract_conjugation(append_form(m, Form(<<Head(found)>>, <<>>, conj_title)),
                             conj_title, Tail(found))

\* line 165: the forms field of the last entry now refers to the list object
\* of the entry before it
assign_previous_forms(m) ==
    LET n == Len(m.pd) IN [m EXCEPT !.pd[n].forms = m.pd[n - 1].forms]

\* lines 169-177
conj_tag(node) ==
    IF node.name \in {<<"conj">>, <<"conjugaison">>}
    THEN strip(removesuffix(node.text, <<SeeConj>>), Whitespace)
    ELSE IF startswith(node.name, <<"ja-">>)
    THEN strip(removesuffix(removesuffix(node.text, <<"(conjugaison)">>),
                            <<"(flexions)">>), Whitespace)
    ELSE node.text

(***************************************************************************)
(* Initial state: an empty page, nothing running.                          *)
(***************************************************************************)
Word == <<"w">>

NoLang == [name |-> "", code |-> ""]

Langs == {[name |-> "Francais", code |-> "fr"], [name |-> "Japonais", code |-> "ja"]}

\* the part-of-speech sections a language section of the modelled pages has
PartsOfSpeech(lang) == IF lang.code = "fr" THEN {"noun", "verb"} ELSE {"verb"}

Step(op, node) == [op |-> op, node |-> node, called |-> FALSE,
                   repeat |-> (last.op = op /\ last.node = node),
                   texts |-> <<>>, pending_in |-> <<>>, index_in |-> sense_index,
                   after_pron |-> last.op = "pron",
                   pron_sound |-> /\ last.op = "pron"
                                  /\ Len(Last(page_data).sounds) > Len(Last(pre).sounds)]

Versions == {"model", "dict"}

\* no call of clean_value yet
NoValue == [pieces |-> <<>>, input |-> <<>>, output |-> <<>>, returned |-> FALSE]

Init ==
    /\ version \in Versions
    /\ page_data = <<>>
    /\ heap = <<>>
    /\ cur_lang = NoLang
    /\ pc = "idle"
    /\ pre_template_name = <<>>
    /\ cur_node = NoNode
    /\ links = <<>>
    /\ linkage_type = ""
    /\ sense_text = <<>>
    /\ sense_index = 0
    /\ pending_tag = <<>>
    /\ err = ""
    /\ result = <<>>
    /\ sections = <<>>
    /\ clean = NoValue
    /\ nnodes = 0
    /\ pre = <<>>
    /\ last = [op |-> "init", node |-> NoNode, called |-> FALSE, repeat |-> FALSE,
               texts |-> <<>>, pending_in |-> <<>>, index_in |-> 0,
               after_pron |-> FALSE, pron_sound |-> FALSE]

formLocals == <<version, pre_template_name, cur_node, links>>
linkageLocals == <<linkage_type, sense_text, sense_index, pending_tag>>
pageLocals == <<result, sections, clean>>

(***************************************************************************)
(* The page orchestrator: it walks the section headers, appends one entry  *)
(* per part-of-speech section and calls the extractors on the last entry.  *)
(***************************************************************************)
LangSection ==
    /\ pc \in {"idle", "lang_redirect", "pos", "sub"}
    /\ Len(page_data) < MaxEntries
    /\ \E lang \in Langs : cur_lang' = lang
    /\ pc' = "lang"
    /\ pre' = PageValue(page_data, heap)
    /\ last' = Step("lang_section", NoNode)
    /\ UNCHANGED <<page_data, heap, formLocals, linkageLocals, err, pageLocals, nnodes>>

StartEntry ==
    /\ pc \in {"lang", "pos", "sub"}
    /\ Len(page_data) < MaxEntries
    /\ \E pos \in PartsOfSpeech(cur_lang) :
          /\ page_data' = Append(page_data,
                                 WordEntry(Word, cur_lang, pos, Len(heap) + 1))
          /\ sections' = Append(sections, [lang |-> cur_lang, pos |-> pos])
    /\ heap' = Append(heap, <<>>)
    /\ pre' = PageValue(page_data, heap)
    /\ pc' = "pos"
    /\ last' = Step("start_entry", NoNode)
    /\ UNCHANGED <<cur_lang, formLocals, linkageLocals, err, result, clean, nnodes>>

(***************************************************************************)
(* extract_form_line (src/src/wiktextract/extractor/fr/form_line.py): one  *)
(* action per branch of the loop body.                                     *)
(***************************************************************************)
BeginFormLine ==
    /\ version = "model"
    /\ pc = "pos"
    /\ pc' = "form_line"
    /\ pre_template_name' = <<>>
    /\ pre' = PageValue(page_data, heap)
    /\ last' = Step("extract_form_line", NoNode)
    /\ UNCHANGED <<version, page_data, heap, cur_lang, cur_node, links, linkageLocals,
                   err, pageLocals, nnodes>>

\* the effect of one iteration of the loop of extract_form_line
FormLineStep(after, op, node) ==
    /\ \E m \in {after} :
          /\ page_data' = m.pd
          /\ heap' = m.hp
          /\ err' = m.err
          /\ pc' = IF m.err # "" THEN "raised" ELSE "form_line"
    /\ pre_template_name' =
          IF node.kind = "template" THEN node.name ELSE pre_template_name
    /\ nnodes' = nnodes + 1
    /\ pre' = PageValue(page_data, heap)
    /\ last' = Step(op, node)
    /\ UNCHANGED <<version, cur_lang, cur_node, links, linkageLocals, pageLocals>>

TemplateWith(handler) ==
    {node \in FormLineNodes : node.kind = "template" /\ Handler(node.name) = handler}

PronTemplate ==
    /\ pc = "form_line" /\ nnodes < MaxNodes
    /\ \E node \in TemplateWith("pron") :
          FormLineStep(process_pron(Machine, node), "pron", node)

EquivPourTemplate ==
    /\ pc = "form_line" /\ nnodes < MaxNodes
    /\ \E node \in TemplateWith("equiv_pour") :
          FormLineStep(process_equiv_pour_template(Machine, node), "equiv_pour", node)

ZhMotTemplate ==
    /\ pc = "form_line" /\ nnodes < MaxNodes
    /\ \E node \in TemplateWith("zh_mot") :
          FormLineStep(process_zh_mot_template(Machine, node), "zh_mot", node)

JaMotTemplate ==
    /\ pc = "form_line" /\ nnodes < MaxNodes
    /\ \E node \in TemplateWith("ja_mot") :
          FormLineStep(process_ja_mot_template(Machine, node), "ja_mot", node)

TagTemplate ==
    /\ pc = "form_line" /\ nnodes < MaxNodes
    /\ \E node \in TemplateWith("tag") :
          FormLineStep(process_tag(Machine, node, pre_template_name), "tag", node)

ItalicNode ==
    /\ pc = "form_line" /\ nnodes < MaxNodes
    /\ \E node \in {n \in FormLineNodes : n.kind = "italic"} :
          FormLineStep(process_italic(Machine, node), "italic", node)

OtherNode ==
    /\ pc = "form_line" /\ nnodes < MaxNodes
    /\ \E node \in {n \in FormLineNodes : n.kind \notin {"template", "italic"}} :
          FormLineStep(Machine, "skip", node)

\* process_conj_template is entered: the template is expanded and its links found
ConjTemplate ==
    /\ pc = "form_line" /\ nnodes < MaxNodes
    /\ \E node \in TemplateWith("conj") :
          /\ cur_node' = node
          /\ links' = SelectSeq(node.children, LAMBDA c : c.k = "link")
          /\ last' = Step("conj", node)
    /\ pc' = "conj_links"
    /\ nnodes' = nnodes + 1
    /\ pre' = PageValue(page_data, heap)
    /\ UNCHANGED <<version, page_data, heap, cur_lang, pre_template_name,
                   linkageLocals, err, pageLocals>>

\* one iteration of the loop over the links (lines 145-167)
ConjLink ==
    /\ pc = "conj_links"
    /\ links # <<>>
    /\ LET link == Head(links) IN
       \E found \in ConjugationPages :
          LET skip == link_filtered(link)
              reuse == ~skip /\ reuse_previous_forms(page_data, heap, link.text)
              m == IF skip THEN Machine
                   ELSE IF reuse THEN assign_previous_forms(Machine)
                   ELSE extract_conjugation(Machine, link.text, found)
          IN /\ (skip \/ reuse) => found = <<>>
             /\ page_data' = m.pd
             /\ heap' = m.hp
             /\ err' = m.err
             /\ pc' = IF m.err # "" THEN "raised" ELSE "conj_links"
             /\ last' = [Step("conj_link", link) EXCEPT
                            !.called = ~skip /\ ~reuse, !.repeat = FALSE]
    /\ links' = Tail(links)
    /\ pre' = PageValue(page_data, heap)
    /\ UNCHANGED <<version, cur_lang, pre_template_name, cur_node, linkageLocals,
                   pageLocals, nnodes>>

\* lines 169-177 and line 56: the tag of the template, then back to the loop
ConjTag ==
    /\ pc = "conj_links"
    /\ links = <<>>
    /\ LET tag == conj_tag(cur_node)
           m == IF Len(tag) > 0 THEN append_to(Machine, "tags", tag) ELSE Machine
       IN /\ page_data' = m.pd
          /\ heap' = m.hp
          /\ err' = m.err
          /\ pc' = IF m.err # "" THEN "raised" ELSE "form_line"
    /\ pre_template_name' = cur_node.name
    /\ cur_node' = NoNode
    /\ pre' = PageValue(page_data, heap)
    /\ last' = Step("conj_tag", cur_node)
    /\ UNCHANGED <<version, cur_lang, links, linkageLocals, pageLocals, nnodes>>

EndFormLine ==
    /\ pc = "form_line"
    /\ pc' = "sub"
    /\ pre' = PageValue(page_data, heap)
    /\ pre_template_name' = <<>>
    /\ cur_node' = NoNode
    /\ links' = <<>>
    /\ last' = Step("return", NoNode)
    /\ UNCHANGED <<version, page_data, heap, cur_lang, linkageLocals, err, pageLocals,
                   nnodes>>

(***************************************************************************)
(* extract_form_line of the dict-based module                              *)
(* (src/wiktextract/extractor/fr/form_line.py): entries are dicts, only    *)
(* template nodes are looked at.                                           *)
(***************************************************************************)
HandlerDict(name) ==
    IF name \in PRON_TEMPLATES THEN "pron"
    ELSE IF name = <<"equiv-pour">> THEN "equiv_pour"
    ELSE IF startswith(name, <<"zh-mot">>) THEN "zh_mot"
    ELSE "tag"

\* lines 24-27
process_pron_dict(m, node) == append_to(m, "sounds", Sound("ipa", node.text, <<>>))

\* node.template_parameters.get(index)
template_parameter(node, index) ==
    LET args == SelectSeq(node.children,
                          LAMBDA c : c.k = "arg" /\ c.name = <<index>>)
    IN IF args = <<>> THEN <<"None">> ELSE args[1].text

RECURSIVE equiv_pour_dict_loop(_, _, _, _)
equiv_pour_dict_loop(m, node, form_type, indexes) ==
    IF indexes = <<>> THEN m
    ELSE LET form == template_parameter(node, Head(indexes)) IN
         equiv_pour_dict_loop(
             IF form # <<"None">>
             THEN append_form(m, Form(form, <<<<"pour", " ">> \o form_type>>, <<>>))
             ELSE m,
             node, form_type, Tail(indexes))

\* lines 37-47
process_equiv_pour_template_dict(m, node) ==
    equiv_pour_dict_loop(m, node, template_parameter(node, "1"),
                         <<"2", "3", "4", "5", "6", "7">>)

RECURSIVE zh_mot_dict_loop(_, _)
zh_mot_dict_loop(m, templates) ==
    IF templates = <<>> THEN m
    ELSE LET template_node == Head(templates) IN
         IF template_node.name = <<"lang">>
         THEN zh_mot_dict_loop(
                  append_to(m, "sounds",
                            Sound("zh_pron", template_node.text, <<"Pinyin">>)),
                  Tail(templates))
         ELSE IF template_node.name = <<"pron">>
         THEN zh_mot_dict_loop(
                  append_to(m, "sounds", Sound("ipa", template_node.text, <<>>)),
                  Tail(templates))
         ELSE zh_mot_dict_loop(m, Tail(templates))

\* lines 50-73
process_zh_mot_template_dict(m, node) ==
    zh_mot_dict_loop(m, SelectSeq(node.children, LAMBDA c : c.k = "template"))

\* lines 33-34
process_tag_dict(m, node) == append_to(m, "tags", node.text)

FormLineNodesDict ==
    PronNodes \cup EquivPourNodes \cup ZhMotNodes
        \cup {n \in TagNodes : n.name = <<"m">>} \cup OtherNodes

BeginFormLineDict ==
    /\ version = "dict"
    /\ pc = "pos"
    /\ pc' = "form_line_dict"
    /\ pre' = PageValue(page_data, heap)
    /\ last' = Step("extract_form_line", NoNode)
    /\ UNCHANGED <<page_data, heap, cur_lang, formLocals, linkageLocals, err, pageLocals,
                   nnodes>>

\* one iteration of the loop (lines 22-34)
FormLineNodeDict ==
    /\ pc = "form_line_dict" /\ nnodes < MaxNodes
    /\ \E node \in FormLineNodesDict :
          LET h == IF node.kind = "template" THEN HandlerDict(node.name) ELSE "skip"
              m == CASE h = "pron" -> process_pron_dict(Machine, node)
                     [] h = "equiv_pour" -> process_equiv_pour_template_dict(Machine, node)
                     [] h = "zh_mot" -> process_zh_mot_template_dict(Machine, node)
                     [] h = "tag" -> process_tag_dict(Machine, node)
                     [] OTHER -> Machine
          IN /\ page_data' = m.pd
             /\ heap' = m.hp
             /\ err' = m.err
             /\ pc' = IF m.err # "" THEN "raised" ELSE "form_line_dict"
             /\ last' = Step(h, node)
    /\ nnodes' = nnodes + 1
    /\ pre' = PageValue(page_data, heap)
    /\ UNCHANGED <<cur_lang, formLocals, linkageLocals, pageLocals>>

EndFormLineDict ==
    /\ pc = "form_line_dict"
    /\ pc' = "sub"
    /\ pre' = PageValue(page_data, heap)
    /\ pre_template_name' = <<>>
    /\ cur_node' = NoNode
    /\ links' = <<>>
    /\ last' = Step("return", NoNode)
    /\ UNCHANGED <<version, page_data, heap, cur_lang, linkageLocals, err, pageLocals,
                   nnodes>>

(***************************************************************************)
(* extract_linkage (src/src/wiktextract/extractor/fr/linkage.py).          *)
(***************************************************************************)
None == "None"

\* wxr.config.LINKAGE_SUBTITLES.get(section_type)
LINKAGE_SUBTITLES(section_type) ==
    CASE section_type = "synonymes" -> "synonyms"
      [] section_type = "derives" -> "derived"
      [] OTHER -> None

SectionTypes == {"synonymes", "derives autres langues", "anagrammes"}

Linkage == [word_set |-> FALSE, word |-> <<>>, sense |-> <<>>, sense_index |-> 0,
            tags |-> <<>>, translation |-> <<>>, roman |-> <<>>, alt |-> <<>>,
            lang_code |-> <<>>, lang |-> <<>>]

\* a child of a list item: its kind, its template name, the text clean_node
\* gives for it (the string itself for a string) and its template parameters
ItemChild(k, name, text, params) == [k |-> k, name |-> name, text |-> text, params |-> params]

NoParams == [x \in {} |-> <<>>]

Str(text) == ItemChild("str", <<>>, text, NoParams)
Link(text) == ItemChild("link", <<>>, text, NoParams)
Italic(text) == ItemChild("italic", <<>>, text, NoParams)
Template(name, text, params) == ItemChild("template", name, text, params)

\* clean_node: the text of a node, a string stripped of surrounding whitespace
clean_node(child) == IF child.k = "str" THEN strip(child.text, Whitespace) ELSE child.text

\* split_tag_text: every top-level parenthesised group is a tag, and so is the
\* text after the last group (the whole text when there is no group)
RECURSIVE split_tag_scan(_, _, _, _, _)
split_tag_scan(text, i, level, start, tags) ==
    IF i > Len(text)
    THEN Append(tags, strip(SubSeq(text, start, Len(text)), Whitespace))
    ELSE IF text[i] = "("
    THEN split_tag_scan(text, i + 1, level + 1, IF level = 0 THEN i + 1 ELSE start, tags)
    ELSE IF text[i] = ")" /\ level = 1
    THEN split_tag_scan(text, i + 1, 0, i + 1,
                        Append(tags, strip(SubSeq(text, start, i - 1), Whitespace)))
    ELSE IF text[i] = ")"
    THEN split_tag_scan(text, i + 1, level - 1, start, tags)
    ELSE split_tag_scan(text, i + 1, level, start, tags)

split_tag_text(text) == split_tag_scan(text, 1, 0, 1, <<>>)

TranslationPrefix == <<"--", " ">>

\* lines 129-133
RECURSIVE add_tags(_, _)
add_tags(linkage_data, tags) ==
    IF tags = <<>> THEN linkage_data
    ELSE LET tag == Head(tags) IN
         add_tags(
             IF startswith(tag, TranslationPrefix)
             THEN [linkage_data EXCEPT
                      !.translation = SubSeq(tag, Len(TranslationPrefix) + 1, Len(tag))]
             ELSE IF Len(tag) > 0
             THEN [linkage_data EXCEPT !.tags = Append(@, tag)]
             ELSE linkage_data,
             Tail(tags))

\* lines 151-170
process_lien_template(node, linkage_data) ==
    LET p == node.params
        with_word == [linkage_data EXCEPT
                         !.word_set = TRUE,
                         !.word = IF "dif" \in DOMAIN p THEN p["dif"] ELSE p["1"]]
        with_roman == IF "tr" \in DOMAIN p
                      THEN [with_word EXCEPT !.roman = p["tr"]] ELSE with_word
    IN IF "sens" \in DOMAIN p
       THEN [with_roman EXCEPT !.translation = p["sens"]] ELSE with_roman

\* lines 173-187
process_zh_lien_template(node, linkage_data) ==
    LET p == node.params
        traditional_form == IF "3" \in DOMAIN p THEN p["3"] ELSE <<>>
        base == [linkage_data EXCEPT !.word_set = TRUE, !.word = p["1"],
                                     !.roman = p["2"]]
    IN IF Len(traditional_form) > 0
       THEN [base EXCEPT !.alt = traditional_form] ELSE base

\* lines 140-148
process_linkage_template(node, linkage_data) ==
    IF node.name = <<"lien">> THEN process_lien_template(node, linkage_data)
    ELSE IF startswith(node.name, <<"zh-lien">>)
    THEN process_zh_lien_template(node, linkage_data)
    ELSE linkage_data

\* getattr(page_data[-1], linkage_type).append(linkage_data)
append_linkage(m, type, linkage_data) ==
    LET n == Len(m.pd) IN
    IF m.err # "" THEN m
    ELSE IF type = None THEN [m EXCEPT !.err = "TypeError"]
    ELSE IF type \notin LinkageFields THEN [m EXCEPT !.err = "AttributeError"]
    ELSE [m EXCEPT !.pd[n].linkages[type] = Append(@, linkage_data)]

\* faulty variant: the text left pending by the previous list item is kept
initial_pending_tag_carried(left_over) == left_over

\* line 94: pending_tag = "" at the start of every list item
initial_pending_tag(left_over) == <<>>

\* lines 95-133: the loop over the children of one list item.  st holds the
\* machine, linkage_data, pending_tag and, as history, the texts given to
\* split_tag_text.
RECURSIVE item_loop(_, _, _, _)
item_loop(st, children, index, type) ==
    IF children = <<>> \/ st.m.err # "" THEN st
    ELSE
    LET child_node == Head(children)
        rest == Tail(children)
        tag_text == child_node.text
        stripped == strip(tag_text, Whitespace)
    IN
    IF index = 0 \/ ~st.linkage_data.word_set
    THEN item_loop(
             [st EXCEPT !.linkage_data =
                 IF child_node.k = "template"
                 THEN process_linkage_template(child_node, @)
                 ELSE [@ EXCEPT !.word_set = TRUE, !.word = clean_node(child_node)]],
             rest, index + 1, type)
    ELSE IF startswith(stripped, <<"(">>) /\ ~endswith(stripped, <<")">>)
    THEN item_loop([st EXCEPT !.pending_tag = tag_text], rest, index + 1, type)
    ELSE IF ~startswith(stripped, <<"(">>) /\ endswith(stripped, <<")">>)
    THEN item_loop(
             [st EXCEPT !.linkage_data =
                            add_tags(@, split_tag_text(st.pending_tag \o tag_text)),
                        !.texts = Append(@, st.pending_tag \o tag_text),
                        !.pending_tag = <<>>],
             rest, index + 1, type)
    ELSE IF stripped \in {<<",">>, <<"/">>}
    THEN item_loop(
             [st EXCEPT !.m = append_linkage(@, type, st.linkage_data),
                        !.linkage_data = Linkage],
             rest, index + 1, type)
    ELSE IF Len(st.pending_tag) > 0
    THEN item_loop([st EXCEPT !.pending_tag = @ \o tag_text], rest, index + 1, type)
    ELSE item_loop(
             [st EXCEPT !.linkage_data = add_tags(@, split_tag_text(tag_text)),
                        !.texts = Append(@, tag_text)],
             rest, index + 1, type)

\* lines 89-137: one list item (or template) that is not a sense header
process_list_item(m, node, type, text, index, left_over) ==
    LET with_sense == IF Len(text) > 0 THEN [Linkage EXCEPT !.sense = text] ELSE Linkage
        linkage_data == IF index # 0
                        THEN [with_sense EXCEPT !.sense_index = index] ELSE with_sense
        st == item_loop([m |-> m, linkage_data |-> linkage_data,
                         pending_tag |-> initial_pending_tag(left_over),
                         texts |-> <<>>],
                        node.children, 0, type)
    IN IF st.linkage_data.word_set
       THEN [st EXCEPT !.m = append_linkage(@, type, st.linkage_data)]
       ELSE st

(***************************************************************************)
(* The sense headers of process_linkage_list.                              *)
(***************************************************************************)
Digits == {"0", "1", "2", "3", "4", "5", "6", "7", "8", "9"}

DigitValue(d) == CHOOSE v \in 0..9 : ToString(v) = d

RECURSIVE int(_)
int(digits) ==
    IF digits = <<>> THEN 0
    ELSE 10 * int(SubSeq(digits, 1, Len(digits) - 1)) + DigitValue(digits[Len(digits)])

isdigit(text) == Len(text) > 0 /\ \A i \in 1..Len(text) : text[i] \in Digits

\* the number of digit tokens that end at position i of text
RECURSIVE digits_before(_, _)
digits_before(text, i) ==
    IF i >= 1 /\ text[i] \in Digits THEN 1 + digits_before(text, i - 1) ELSE 0

\* the number of whitespace tokens that end at position i of text
RECURSIVE spaces_before(_, _)
spaces_before(text, i) ==
    IF i >= 1 /\ text[i] \in Whitespace THEN 1 + spaces_before(text, i - 1) ELSE 0

\* re.search(r"\s*\((?:sens\s*)?(\d+)\)$", text): the position where the match
\* starts and the digits of its group, or start 0 when there is no match
index_pattern(text) ==
    LET n == Len(text)
        nd == IF n >= 1 /\ text[n] = ")" THEN digits_before(text, n - 1) ELSE 0
        d1 == n - nd            \* position of the first digit
        ns == spaces_before(text, d1 - 1)
        after_sens == d1 - 1 - ns
        open_at == IF nd = 0 THEN 0
                   ELSE IF d1 - 1 >= 1 /\ text[d1 - 1] = "(" THEN d1 - 1
                   ELSE IF after_sens >= 2 /\ text[after_sens] = "sens"
                           /\ text[after_sens - 1] = "("
                   THEN after_sens - 1
                   ELSE 0
    IN IF open_at = 0 THEN [start |-> 0, digits |-> <<>>]
       ELSE [start |-> open_at - spaces_before(text, open_at - 1),
             digits |-> SubSeq(text, d1, n - 1)]

\* faulty variant: the index is read but not removed from the sense text
sense_of_item_keep_suffix(text, index) ==
    LET m == index_pattern(text) IN
    [text |-> text, index |-> IF m.start # 0 THEN int(m.digits) ELSE index]

\* lines 81-86: the sense text and sense index after a ";" list item
sense_of_item(text, index) ==
    LET m == index_pattern(text) IN
    IF m.start # 0
    THEN [text |-> SubSeq(text, 1, m.start - 1), index |-> int(m.digits)]
    ELSE [text |-> text, index |-> index]

\* lines 67-74: the sense text and sense index after a "(" template
sense_of_template(node, index) ==
    LET p == node.params
        sense_index_text == IF "2" \in DOMAIN p THEN p["2"] ELSE <<"0">>
    IN [text |-> IF "1" \in DOMAIN p THEN p["1"] ELSE <<>>,
        index |-> IF isdigit(sense_index_text) THEN int(sense_index_text) ELSE index]

(***************************************************************************)
(* Inputs of extract_linkage: the templates and list items that            *)
(* level_node.find_child_recursively gives.                                *)
(***************************************************************************)
LinkageNode(kind, name, text, params, children) ==
    [kind |-> kind, name |-> name, text |-> text, params |-> params,
     children |-> children]

SenseTemplates ==
    {LinkageNode("template", <<"(">>, <<>>, p, <<>>) : p \in {
        [x \in {"1", "2"} |-> IF x = "1" THEN <<"Sens A">> ELSE <<"2">>],
        [x \in {"1"} |-> <<"Sens B">>],
        [x \in {"2"} |-> <<"x">>]}}

SenseItems ==
    {LinkageNode("list_item", <<";">>, t, NoParams, <<>>) : t \in {
        <<"Sens C", " ", "(", "1", ")">>,
        <<"Sens D", "(", "sens", " ", "1", "2", ")">>,
        <<"(", "3", ")", " ", "Sens F">>}}

ListItems ==
    {LinkageNode("list_item", <<"*">>, <<>>, NoParams, c) : c \in {
        <<Link(<<"a">>)>>,
        <<Link(<<"a">>), Str(<<" ", "(", "T", ")", " ", "--", " ", "tr">>)>>,
        <<Link(<<"a">>), Str(<<" ", "(", "T">>)>>,
        <<Link(<<"b">>), Str(<<"U", ")">>)>>,
        <<Link(<<"a">>), Str(<<",", " ">>), Link(<<"b">>)>>,
        <<Link(<<"a">>), Str(<<" ", "(">>), Italic(<<"T">>), Str(<<",", " ">>),
          Italic(<<"U">>), Str(<<")">>)>>,
        <<Template(<<"lien">>, <<"a">>,
                   [x \in {"1", "sens"} |-> IF x = "1" THEN <<"a">> ELSE <<"tr">>])>>,
        <<Template(<<"zh-lien">>, <<"a">>,
                   [x \in {"1", "2"} |-> IF x = "1" THEN <<"a">> ELSE <<"pinyin">>]),
          Str(<<" ", "(", "T", ")", ",", " ">>), Link(<<"b">>)>>,
        <<Template(<<"x">>, <<"y">>, NoParams),
          Template(<<"lien">>, <<>>, [x \in {"1"} |-> <<>>])>>}}

\* a template inside the section that is not the "(" template: it has no children
OtherTemplates == {LinkageNode("template", <<")">>, <<>>, NoParams, <<>>)}

DerivesItems ==
    {LinkageNode("list_item", <<"*">>, <<>>, NoParams, c) : c \in {
        <<Template(<<"L">>, <<"Anglais">>, [x \in {"1"} |-> <<"en">>]),
          Link(<<"a">>),
          Template(<<"lien">>, <<"b">>, [x \in {"1"} |-> <<"b">>])>>,
        <<Italic(<<"T">>)>>}}

(***************************************************************************)
(* extract_linkage and process_linkage_list: one action per node.          *)
(***************************************************************************)
BeginLinkage ==
    /\ version = "model"
    /\ pc \in {"pos", "sub"}
    /\ \E section_type \in SectionTypes :
          IF section_type = "derives autres langues"
          THEN /\ pc' = "derives"
               /\ UNCHANGED linkage_type
          ELSE /\ pc' = "linkage"
               /\ linkage_type' = LINKAGE_SUBTITLES(section_type)
    /\ sense_text' = <<>>
    /\ sense_index' = 0
    /\ pending_tag' = <<>>
    /\ pre' = PageValue(page_data, heap)
    /\ last' = Step("extract_linkage", NoNode)
    /\ UNCHANGED <<page_data, heap, cur_lang, formLocals, err, pageLocals, nnodes>>

\* lines 63-75
SenseTemplate ==
    /\ pc = "linkage" /\ nnodes < MaxNodes
    /\ \E node \in SenseTemplates :
          LET sense == sense_of_template(node, sense_index) IN
          /\ sense_text' = sense.text
          /\ sense_index' = sense.index
          /\ last' = Step("sense_template", node)
    /\ nnodes' = nnodes + 1
    /\ pre' = PageValue(page_data, heap)
    /\ UNCHANGED <<page_data, heap, cur_lang, pc, formLocals, linkage_type, pending_tag,
                   err, pageLocals>>

\* lines 77-87
SenseItem ==
    /\ pc = "linkage" /\ nnodes < MaxNodes
    /\ \E node \in SenseItems :
          LET sense == sense_of_item(node.text, sense_index) IN
          /\ sense_text' = sense.text
          /\ sense_index' = sense.index
          /\ last' = Step("sense_item", node)
    /\ nnodes' = nnodes + 1
    /\ pre' = PageValue(page_data, heap)
    /\ UNCHANGED <<page_data, heap, cur_lang, pc, formLocals, linkage_type, pending_tag,
                   err, pageLocals>>

\* lines 89-137
LinkageItem ==
    /\ pc = "linkage" /\ nnodes < MaxNodes
    /\ \E node \in ListItems \cup OtherTemplates :
          \E st \in {process_list_item(Machine, node, linkage_type, sense_text,
                                        sense_index, pending_tag)} :
          /\ page_data' = st.m.pd
          /\ heap' = st.m.hp
          /\ err' = st.m.err
          /\ pc' = IF st.m.err # "" THEN "raised" ELSE "linkage"
          /\ pending_tag' = st.pending_tag
          /\ last' = [Step("linkage_item", node) EXCEPT
                         !.texts = st.texts, !.pending_in = pending_tag]
    /\ nnodes' = nnodes + 1
    /\ pre' = PageValue(page_data, heap)
    /\ UNCHANGED <<cur_lang, formLocals, linkage_type, sense_text, sense_index, pageLocals>>

\* lines 38-48: the loop over the children of one list item
RECURSIVE derives_autres_loop(_, _, _, _)
derives_autres_loop(m, children, lang_code, lang_name) ==
    IF children = <<>> THEN m
    ELSE LET node == Head(children) IN
         IF node.k = "template" /\ node.name = <<"L">>
         THEN derives_autres_loop(m, Tail(children),
                                  IF "1" \in DOMAIN node.params
                                  THEN node.params["1"] ELSE <<"None">>,
                                  node.text)
         ELSE IF node.k = "link" \/ (node.k = "template" /\ node.name = <<"lien">>)
         THEN derives_autres_loop(
                  [m EXCEPT !.pd[Len(m.pd)].linkages["derived"] =
                      Append(@, [Linkage EXCEPT !.word_set = TRUE, !.word = node.text,
                                                !.lang_code = lang_code,
                                                !.lang = lang_name])],
                  Tail(children), lang_code, lang_name)
         ELSE derives_autres_loop(m, Tail(children), lang_code, lang_name)

\* lines 35-48
DerivesAutresItem ==
    /\ pc = "derives" /\ nnodes < MaxNodes
    /\ \E node \in DerivesItems :
          LET m == derives_autres_loop(
                       Machine,
                       SelectSeq(node.children,
                                 LAMBDA c : c.k \in {"template", "link"}),
                       <<>>, <<>>) IN
          /\ page_data' = m.pd
          /\ heap' = m.hp
          /\ last' = Step("derives_item", node)
    /\ nnodes' = nnodes + 1
    /\ pre' = PageValue(page_data, heap)
    /\ UNCHANGED <<cur_lang, pc, formLocals, linkageLocals, err, pageLocals>>

EndLinkage ==
    /\ pc \in {"linkage", "derives"}
    /\ pc' = "sub"
    /\ pre' = PageValue(page_data, heap)
    /\ linkage_type' = ""
    /\ sense_text' = <<>>
    /\ sense_index' = 0
    /\ pending_tag' = <<>>
    /\ last' = [Step("return", NoNode) EXCEPT !.index_in = 0]
    /\ UNCHANGED <<page_data, heap, cur_lang, formLocals, err, pageLocals, nnodes>>

NextLinkage ==
    \/ LangSection \/ StartEntry
    \/ BeginLinkage \/ SenseTemplate \/ SenseItem \/ LinkageItem
    \/ DerivesAutresItem \/ EndLinkage

SpecLinkage == Init /\ [][NextLinkage]_vars

(***************************************************************************)
(* parse_page: the section walk of the page orchestrator and the list it   *)
(* returns.  A zh-see template inside a part-of-speech section adds a      *)
(* redirect to the entry of that section; in a language section that has   *)
(* no part-of-speech section it gives an entry of its own, without a pos   *)
(* (tests/test_page.py, test_zh_see).                                      *)
(***************************************************************************)
Redirects == {<<"r1">>, <<"r2">>}

ZhSee ==
    /\ nnodes < MaxNodes
    /\ \E target \in Redirects :
          \/ /\ pc \in {"pos", "sub", "lang_redirect"}
             /\ page_data' = [page_data EXCEPT ![Len(page_data)].redirects =
                                                  Append(@, target)]
             /\ UNCHANGED <<heap, pc>>
          \/ /\ pc = "lang"
             /\ Len(page_data) < MaxEntries
             /\ page_data' = Append(page_data,
                   [WordEntry(Word, cur_lang, None, Len(heap) + 1) EXCEPT
                       !.redirects = <<target>>])
             /\ heap' = Append(heap, <<>>)
             /\ pc' = "lang_redirect"
    /\ nnodes' = nnodes + 1
    /\ pre' = PageValue(page_data, heap)
    /\ last' = Step("zh_see", NoNode)
    /\ UNCHANGED <<cur_lang, formLocals, linkageLocals, err, pageLocals>>

(***************************************************************************)
(* parse_page: the head line and the gloss lists of a part-of-speech       *)
(* section (tests/test_page.py, test_page1 to test_page7).                 *)
(***************************************************************************)
HeadWords == {Word, <<"foo">>}

\* the gender letter that may follow the head-line word, and its tag
Genders == {<<>>, <<"feminine">>}

HeadLines == {[word |-> w, tags |-> g] : w \in HeadWords, g \in Genders}

\* faulty variant: the head-line word is always recorded as a form
head_line_always(m, head) ==
    append_form(m, Form(head.word, <<"canonical">> \o head.tags, <<>>))

\* the head line of a section: a head-line word that is not the word of the
\* entry becomes a form tagged canonical (with the tags of the head line);
\* otherwise the tags of the head line go to the senses
head_line(m, head) ==
    IF head.word # m.pd[Len(m.pd)].word
    THEN append_form(m, Form(head.word, <<"canonical">> \o head.tags, <<>>))
    ELSE [m EXCEPT !.pd[Len(m.pd)].head_tags = head.tags]

HeadLine ==
    /\ pc = "pos"
    /\ last.op = "start_entry"
    /\ nnodes < MaxNodes
    /\ \E head \in HeadLines :
          /\ \E m \in {head_line(Machine, head)} :
                /\ page_data' = m.pd
                /\ heap' = m.hp
          /\ last' = Step("head_line", head)
    /\ nnodes' = nnodes + 1
    /\ pre' = PageValue(page_data, heap)
    /\ UNCHANGED <<cur_lang, pc, formLocals, linkageLocals, err, pageLocals>>

\* an item of a gloss list: its gloss, its examples ("#:" items) and its
\* sub-items ("##" items)
GlossItem(gloss, examples, children) ==
    [gloss |-> gloss, examples |-> examples, children |-> children]

LeafWithExample == GlossItem(<<"sense a">>, <<"example a">>, <<>>)

LeafWithoutExample == GlossItem(<<"sense b">>, <<>>, <<>>)

LeafItems == {LeafWithExample, LeafWithoutExample}

SubLists == {<<LeafWithoutExample>>, <<LeafWithExample, LeafWithoutExample>>}

ParentItems ==
    {GlossItem(<<"sense p">>, e, c) : e \in {<<>>, <<"example p">>}, c \in SubLists}

GlossItems == LeafItems \cup ParentItems

Sense(glosses, examples) == [glosses |-> glosses, examples |-> examples]

RECURSIVE parse_sense_node(_, _)
RECURSIVE parse_sense_list(_, _)
\* faulty variant: the sense of a parent item comes before those of its sub-items
parse_sense_node_parent_first(item, glosses) ==
    LET path == Append(glosses, item.gloss) IN
    IF item.children = <<>> THEN <<Sense(path, item.examples)>>
    ELSE (IF item.examples # <<>> THEN <<Sense(path, item.examples)>> ELSE <<>>)
         \o parse_sense_list(item.children, path)

\* the senses of one item of a gloss list under the glosses of its ancestors:
\* a leaf gives one sense; a parent gives the senses of its sub-items and
\* then, when it has examples of its own, a sense of its own
parse_sense_node(item, glosses) ==
    LET path == Append(glosses, item.gloss) IN
    IF item.children = <<>> THEN <<Sense(path, item.examples)>>
    ELSE parse_sense_list(item.children, path)
         \o (IF item.examples # <<>> THEN <<Sense(path, item.examples)>> ELSE <<>>)

parse_sense_list(items, glosses) ==
    IF items = <<>> THEN <<>>
    ELSE parse_sense_node(Head(items), glosses) \o parse_sense_list(Tail(items), glosses)

GlossListItem ==
    /\ pc = "pos"
    /\ nnodes < MaxNodes
    /\ \E item \in GlossItems :
          /\ page_data' = [page_data EXCEPT ![Len(page_data)].senses =
                                               @ \o parse_sense_node(item, <<>>)]
          /\ last' = Step("gloss_item", item)
    /\ nnodes' = nnodes + 1
    /\ pre' = PageValue(page_data, heap)
    /\ UNCHANGED <<heap, cur_lang, pc, formLocals, linkageLocals, err, pageLocals>>

\* the record of one entry: the fields that are present (keys) and their
\* values; forms, senses and redirects are present only when not empty, pos
\* only when the entry has one; the tags of the head line are on every sense
record_of(e, forms) ==
    [keys |-> {"word", "lang", "lang_code"}
              \cup (IF e.pos # None THEN {"pos"} ELSE {})
              \cup (IF forms # <<>> THEN {"forms"} ELSE {})
              \cup (IF e.senses # <<>> THEN {"senses"} ELSE {})
              \cup (IF e.redirects # <<>> THEN {"redirects"} ELSE {}),
     word |-> e.word, lang |-> e.lang, lang_code |-> e.lang_code, pos |-> e.pos,
     forms |-> forms,
     senses |-> [k \in 1..Len(e.senses) |->
                    [glosses |-> e.senses[k].glosses, examples |-> e.senses[k].examples,
                     tags |-> e.head_tags]],
     redirects |-> e.redirects]

\* faulty variant: the records are returned in reverse order
page_result_reversed(pd, hp) ==
    [i \in 1..Len(pd) |-> record_of(pd[Len(pd) + 1 - i], hp[pd[Len(pd) + 1 - i].forms])]

\* the records of the returned list, one per entry, in the order of page_data
page_result(pd, hp) ==
    [i \in 1..Len(pd) |-> record_of(pd[i], hp[pd[i].forms])]

Finish ==
    /\ pc \in {"idle", "lang", "lang_redirect", "pos", "sub"}
    /\ result' = page_result(page_data, heap)
    /\ pc' = "done"
    /\ pre' = PageValue(page_data, heap)
    /\ last' = Step("parse_page_return", NoNode)
    /\ UNCHANGED <<page_data, heap, cur_lang, formLocals, linkageLocals, err, sections,
                   clean, nnodes>>

NextPage == LangSection \/ StartEntry \/ HeadLine \/ GlossListItem \/ ZhSee \/ Finish

SpecPage == Init /\ [][NextPage]_vars

(***************************************************************************)
(* clean_value: the replacement of wiki links (tests/test_clean.py,        *)
(* test_cv_link1 to test_cv_link8).  A value is a sequence of tokens; the  *)
(* tokens "[[", "]]", "|" and ":" are the markup of a link.                *)
(***************************************************************************)
MaxPieces == 2

\* a piece of a value: plain text, or a link with an optional leading colon,
\* namespace prefixes, a target and the texts that follow its bars
TextPiece(text) ==
    [kind |-> "text", colon |-> FALSE, prefix |-> <<>>, target |-> text, bars |-> <<>>]

LinkPiece(colon, prefix, target, bars) ==
    [kind |-> "link", colon |-> colon, prefix |-> prefix, target |-> target,
     bars |-> bars]

Pieces ==
    {TextPiece(<<"This is a ">>),
     TextPiece(<<".">>),
     LinkPiece(FALSE, <<>>, <<"test">>, <<>>),
     LinkPiece(FALSE, <<"w">>, <<"foo">>, << <<"test">> >>),
     LinkPiece(FALSE, <<"w">>, <<"foo">>, << <<>> >>),
     LinkPiece(TRUE, <<"w">>, <<"Foo">>, << <<"Foo">> >>),
     LinkPiece(FALSE, <<>>, <<"bazlink">>, << <<"baz">> >>),
     LinkPiece(FALSE, <<"FIle">>, <<"Da.png">>, << <<"25px">> >>),
     LinkPiece(FALSE, <<"File">>, <<"MiG.JPG">>,
               << <<"thumb">>, <<"right">>, <<"A MiG-17 jet.">> >>)}

RECURSIVE with_colons(_)
with_colons(prefix) ==
    IF prefix = <<>> THEN <<>> ELSE <<Head(prefix), ":">> \o with_colons(Tail(prefix))

RECURSIVE with_bars(_)
with_bars(bars) ==
    IF bars = <<>> THEN <<>> ELSE <<"|">> \o Head(bars) \o with_bars(Tail(bars))

\* the wikitext of a piece
wikitext(piece) ==
    IF piece.kind = "text" THEN piece.target
    ELSE <<"[[">> \o (IF piece.colon THEN <<":">> ELSE <<>>) \o with_colons(piece.prefix)
         \o piece.target \o with_bars(piece.bars) \o <<"]]">>

RECURSIVE wikitext_of(_)
wikitext_of(pieces) ==
    IF pieces = <<>> THEN <<>> ELSE wikitext(Head(pieces)) \o wikitext_of(Tail(pieces))

RECURSIVE PieceSeqs(_)
PieceSeqs(n) ==
    IF n = 0 THEN {<<>>}
    ELSE PieceSeqs(n - 1)
         \cup {Append(q, piece) : q \in PieceSeqs(n - 1), piece \in Pieces}

\* the position of the first token tok of v at or after position from, or 0
RECURSIVE index_of(_, _, _)
index_of(v, tok, from) ==
    IF from > Len(v) THEN 0
    ELSE IF v[from] = tok THEN from
    ELSE index_of(v, tok, from + 1)

\* the position of the last token tok of v, or 0
RECURSIVE rindex_of(_, _, _)
rindex_of(v, tok, from) ==
    IF from < 1 THEN 0
    ELSE IF v[from] = tok THEN from
    ELSE rindex_of(v, tok, from - 1)

\* str.lower() of a namespace name
lower_namespace(name) ==
    IF name \in {"File", "FIle", "file"} THEN "file"
    ELSE IF name \in {"Image", "image"} THEN "image"
    ELSE name

\* faulty variant: the display text of a file link is kept
repl_link_keep_files(inner) ==
    LET bar == index_of(inner, "|", 1)
        before == IF bar = 0 THEN inner ELSE SubSeq(inner, 1, bar - 1)
        after == IF bar = 0 THEN <<>> ELSE SubSeq(inner, bar + 1, Len(inner))
        target == IF before # <<>> /\ Head(before) = ":" THEN Tail(before) ELSE before
        last_colon == rindex_of(target, ":", Len(target))
    IN IF bar = 0 THEN target
       ELSE IF after = <<>> THEN SubSeq(target, last_colon + 1, Len(target))
       ELSE after

\* the replacement of one link, given the tokens between "[[" and "]]": a
\* link into the File or Image namespace is removed; a link without a bar
\* gives its target; a bar with nothing after it gives the target without its
\* namespace prefix; otherwise the text after the bar
repl_link(inner) ==
    LET bar == index_of(inner, "|", 1)
        before == IF bar = 0 THEN inner ELSE SubSeq(inner, 1, bar - 1)
        after == IF bar = 0 THEN <<>> ELSE SubSeq(inner, bar + 1, Len(inner))
        target == IF before # <<>> /\ Head(before) = ":" THEN Tail(before) ELSE before
        first_colon == index_of(target, ":", 1)
        last_colon == rindex_of(target, ":", Len(target))
    IN IF first_colon = 2 /\ lower_namespace(target[1]) \in {"file", "image"} THEN <<>>
       ELSE IF bar = 0 THEN target
       ELSE IF after = <<>> THEN SubSeq(target, last_colon + 1, Len(target))
       ELSE after

\* every "[[" ... "]]" of the value is replaced, from left to right
RECURSIVE clean_value(_)
clean_value(v) ==
    LET open == index_of(v, "[[", 1)
        close == IF open = 0 THEN 0 ELSE index_of(v, "]]", open + 1)
    IN IF close = 0 THEN v
       ELSE SubSeq(v, 1, open - 1) \o repl_link(SubSeq(v, open + 1, close - 1))
            \o clean_value(SubSeq(v, close + 1, Len(v)))

InitClean ==
    /\ version = "model"
    /\ page_data = <<>>
    /\ heap = <<>>
    /\ cur_lang = NoLang
    /\ pc = "idle"
    /\ pre_template_name = <<>>
    /\ cur_node = NoNode
    /\ links = <<>>
    /\ linkage_type = ""
    /\ sense_text = <<>>
    /\ sense_index = 0
    /\ pending_tag = <<>>
    /\ err = ""
    /\ result = <<>>
    /\ sections = <<>>
    /\ \E pieces \in PieceSeqs(MaxPieces) :
          clean = [pieces |-> pieces, input |-> wikitext_of(pieces), output |-> <<>>,
                   returned |-> FALSE]
    /\ nnodes = 0
    /\ pre = <<>>
    /\ last = [op |-> "init", node |-> NoNode, called |-> FALSE, repeat |-> FALSE,
               texts |-> <<>>, pending_in |-> <<>>, index_in |-> 0,
               after_pron |-> FALSE, pron_sound |-> FALSE]

\* a call of clean_value on its own, outside the walk of a page
CleanValue ==
    /\ pc = "idle"
    /\ clean' = [clean EXCEPT !.output = clean_value(clean.input), !.returned = TRUE]
    /\ pc' = "cleaned"
    /\ UNCHANGED <<page_data, heap, cur_lang, formLocals, linkageLocals, err, result,
                   sections, nnodes, pre, last>>

NextClean == CleanValue

SpecClean == InitClean /\ [][NextClean]_vars

NextForm ==
    \/ LangSection \/ StartEntry \/ BeginFormLine
    \/ PronTemplate \/ EquivPourTemplate \/ ZhMotTemplate \/ JaMotTemplate
    \/ ConjTemplate \/ ConjLink \/ ConjTag
    \/ TagTemplate \/ ItalicNode \/ OtherNode \/ EndFormLine
    \/ BeginFormLineDict \/ FormLineNodeDict \/ EndFormLineDict

SpecForm == Init /\ [][NextForm]_vars

(***************************************************************************)
(* Properties of extract_form_line.                                        *)
(***************************************************************************)
Now == PageValue(page_data, heap)

NodeOps == {"pron", "equiv_pour", "zh_mot", "ja_mot", "conj", "conj_link", "conj_tag",
            "tag", "italic", "skip"}

IsPrefix(s, t) == Len(s) <= Len(t) /\ SubSeq(t, 1, Len(s)) = s

LinkageOps == {"sense_template", "sense_item", "linkage_item", "derives_item"}

\* C1 (as claimed): a step of extract_form_line or extract_linkage leaves the
\* number and order of the entries, and every field value of every entry
\* other than the last one, as they were before the step.
OnlyLastEntryMutated ==
    last.op \in NodeOps \cup LinkageOps =>
        /\ Len(Now) = Len(pre)
        /\ \A i \in 1..(Len(pre) - 1) : Now[i] = pre[i]

\* C3: for a conjugation link that is not filtered out, the forms of the
\* previous entry are reused (and extract_conjugation is not called) exactly
\* when there is a previous entry with the same lang_code and pos whose last
\* form has the link title as its source; otherwise extract_conjugation is
\* called for the current entry with that title.
ConjFormReuse ==
    (last.op = "conj_link" /\ ~link_filtered(last.node) /\ err = "") =>
        LET n == Len(pre)
            conj_title == last.node.text
            same == /\ n > 1
                    /\ pre[n - 1].lang_code = pre[n].lang_code
                    /\ pre[n - 1].pos = pre[n].pos
                    /\ pre[n - 1].forms # <<>>
                    /\ Last(pre[n - 1].forms).source = conj_title
        IN IF same
           THEN /\ ~last.called
                /\ Now[n].forms = pre[n - 1].forms
           ELSE /\ last.called
                /\ IsPrefix(pre[n].forms, Now[n].forms)
                /\ \A i \in (Len(pre[n].forms) + 1)..Len(Now[n].forms) :
                       Now[n].forms[i].source = conj_title

ConjFormReuseWitness ==
    /\ last.op = "conj_link"
    /\ ~link_filtered(last.node)
    /\ ~last.called
    /\ Len(page_data) > 1
    /\ page_data[Len(page_data)].forms = page_data[Len(page_data) - 1].forms
    /\ Last(Now[Len(Now)].forms).source = last.node.text

\* C4: process_ja_mot_template appends at most one form, tagged
\* "romanization", whose text is not the text of a form the entry already
\* has; the same template processed twice in a row adds nothing the second
\* time.
JaMotNoDuplicate ==
    last.op = "ja_mot" =>
        LET n == Len(pre)
            old == pre[n].forms
            new == Now[n].forms
        IN /\ \/ new = old
              \/ /\ Len(new) = Len(old) + 1
                 /\ IsPrefix(old, new)
                 /\ Last(new).tags = <<"romanization">>
                 /\ \A i \in 1..Len(old) : old[i].form # Last(new).form
           /\ last.repeat => new = old

JaMotNoDuplicateWitness ==
    /\ last.op = "ja_mot"
    /\ last.repeat
    /\ Len(last.node.children) >= 2
    /\ \E i \in 1..Len(Now[Len(Now)].forms) :
          /\ Now[Len(Now)].forms[i].form = last.node.children[2].text
          /\ Now[Len(Now)].forms[i].tags = <<"romanization">>

\* the handler that the priority order of the claim gives a template name
ClaimedHandler(name) ==
    CASE name \in PRON_TEMPLATES -> "pron"
      [] name \notin PRON_TEMPLATES /\ name = <<"equiv-pour">> -> "equiv_pour"
      [] name \notin PRON_TEMPLATES /\ name # <<"equiv-pour">>
            /\ Head(name) = "zh-mot" -> "zh_mot"
      [] name = <<"ja-", "mot">> -> "ja_mot"
      [] \/ name = <<"conj">>
         \/ name = <<"conjugaison">>
         \/ (Len(name) >= 2 /\ name[1] = "ja-" /\ name[2] \in {"adj-", "verbe"}) -> "conj"
      [] OTHER -> "tag"

\* C6: every template node is handled by the one handler that its name
\* selects, and by no other: a pronunciation template only adds a sound, the
\* equivalent-form and Japanese handlers only touch the forms, the Chinese
\* handler only the sounds, any other name only the tags (of the entry or of
\* its last sound); a node that is neither a template nor an italic node
\* changes nothing.
FormLineDispatch ==
    (version = "model" /\ last.op \in NodeOps \ {"conj_link", "conj_tag"}) =>
        LET n == Len(pre)
            node == last.node
        IN /\ node.kind = "template" => last.op = ClaimedHandler(node.name)
           /\ node.kind = "italic" => last.op = "italic"
           /\ node.kind \notin {"template", "italic"} => (last.op = "skip" /\ Now = pre)
           /\ last.op = "pron" =>
                 /\ Now[n].forms = pre[n].forms /\ Now[n].tags = pre[n].tags
                 /\ node.text # <<>> =>
                       Now[n].sounds = Append(pre[n].sounds, Sound("ipa", node.text, <<>>))
           /\ last.op \in {"equiv_pour", "ja_mot"} =>
                 Now[n].sounds = pre[n].sounds /\ Now[n].tags = pre[n].tags
           /\ last.op = "zh_mot" =>
                 Now[n].forms = pre[n].forms /\ Now[n].tags = pre[n].tags
           /\ last.op = "conj" => Now = pre
           /\ last.op \in {"tag", "italic"} =>
                 /\ Now[n].forms = pre[n].forms
                 /\ Len(Now[n].sounds) = Len(pre[n].sounds)

FormLineDispatchWitness ==
    /\ version = "model"
    /\ last.op = "ja_mot"
    /\ last.node.name = <<"ja-", "mot">>
    /\ Now[Len(Now)].forms # pre[Len(pre)].forms

NoEmptyIpa ==
    \A i \in 1..Len(page_data) :
        \A k \in 1..Len(page_data[i].sounds) :
            page_data[i].sounds[k].field = "ipa" => page_data[i].sounds[k].text # <<>>

\* C14 (as claimed): a parenthesised tag of a template that directly
\* follows a pronunciation template is appended, without its parentheses, to
\* the tags of the sound which that pronunciation template produced, and
\* neither the tags of the entry nor the other sounds change.
LocationTagOnPrecedingSound ==
    (/\ version = "model"
     /\ last.op = "tag"
     /\ last.after_pron
     /\ startswith(last.node.text, <<"(">>)
     /\ endswith(last.node.text, <<")">>)
     /\ strip(last.node.text, Parens) # <<>>) =>
        LET n == Len(Now)
            k == Len(Now[n].sounds)
        IN /\ last.pron_sound
           /\ k = Len(pre[n].sounds)
           /\ Now[n].sounds = [pre[n].sounds EXCEPT
                                  ![k].tags = Append(@, strip(last.node.text, Parens))]
           /\ Now[n].tags = pre[n].tags

\* every sound of old is still in new, at its place, with at least its tags
SoundsKept(old, new) ==
    /\ Len(old) <= Len(new)
    /\ \A k \in 1..Len(old) :
           /\ new[k] = [old[k] EXCEPT !.tags = new[k].tags]
           /\ IsPrefix(old[k].tags, new[k].tags)

\* C20 (as claimed): a node of the form line only adds data: the sounds,
\* tags and forms of the last entry still begin with what they held before
\* the node.
FormLineOnlyAdds ==
    (last.op \in NodeOps /\ err = "") =>
        LET n == Len(Now)
        IN /\ Len(pre) = n
           /\ SoundsKept(pre[n].sounds, Now[n].sounds)
           /\ IsPrefix(pre[n].tags, Now[n].tags)
           /\ IsPrefix(pre[n].forms, Now[n].forms)

(***************************************************************************)
(* Properties of extract_linkage.                                          *)
(***************************************************************************)
\* C2 (as claimed): no step of extract_linkage raises, whatever the section
\* type and the list content.
ExtractLinkageNeverRaises ==
    last.op \in LinkageOps => err = ""

RECURSIVE Concat(_)
Concat(texts) == IF texts = <<>> THEN <<>> ELSE Head(texts) \o Concat(Tail(texts))

\* the fragments of the list item at the positions of keep, in order
RECURSIVE FragmentsAt(_, _, _)
FragmentsAt(node, keep, i) ==
    IF i > Len(node.children) THEN <<>>
    ELSE (IF i \in keep THEN <<node.children[i].text>> ELSE <<>>)
         \o FragmentsAt(node, keep, i + 1)

\* t is the join, in order, of fragments of the list item
IsJoinOfFragments(t, node) ==
    \E keep \in SUBSET (1..Len(node.children)) : t = Concat(FragmentsAt(node, keep, 1))

\* the fragments of a list item that end with ")" and do not start with "("
ClosingFragments(node) ==
    {node.children[i].text : i \in {k \in 2..Len(node.children) :
        LET stripped == strip(node.children[k].text, Whitespace) IN
        ~startswith(stripped, <<"(">>) /\ endswith(stripped, <<")">>)}}

\* C5 (as claimed): a fragment held pending when a list item ends is joined
\* with the closing fragment of a later list item.
PendingTagAcrossListItems ==
    (last.op = "linkage_item" /\ err = "" /\ last.pending_in # <<>>) =>
        \A closing \in ClosingFragments(last.node) :
            \E k \in 1..Len(last.texts) : last.texts[k] = last.pending_in \o closing

\* C5 (amended): pending parenthetical text accumulates across the fragments
\* of one list item only: every text that is split into tags is a join, in
\* order, of fragments of the list item being processed, so a fragment left
\* pending by an earlier list item is never joined with a closing fragment
\* of a later one.
PendingTagWithinListItem ==
    last.op = "linkage_item" =>
        \A k \in 1..Len(last.texts) : IsJoinOfFragments(last.texts[k], last.node)

\* a list item closes a parenthesis while an earlier list item left a
\* fragment pending: the closing fragment is split into tags on its own
PendingTagWithinListItemWitness ==
    /\ last.op = "linkage_item"
    /\ err = ""
    /\ last.pending_in = <<" ", "(", "T">>
    /\ last.texts = << <<"U", ")">> >>
    /\ pending_tag = <<>>

\* the text ends with "(N)" or "(sens N)": text is head, an opening
\* parenthesis, an optional "sens" with whitespace, digits, ")"
EndsWithIndex(text, head, digits) ==
    /\ isdigit(digits)
    /\ \/ text = head \o <<"(">> \o digits \o <<")">>
       \/ \E ns \in 0..Len(text) :
             text = head \o <<"(", "sens">> \o [i \in 1..ns |-> " "] \o digits \o <<")">>

Splits(text) ==
    {<<SubSeq(text, 1, i), SubSeq(text, j, Len(text) - 1)>> :
        i \in 0..Len(text), j \in 1..Len(text)}

\* C7: a ";" list item leaves every entry as it was (no linkage is
\* appended) and sets the sense text; when its text ends with "(N)" or
\* "(sens N)" the sense index becomes N and the sense text is the text
\* before the index without its trailing whitespace, otherwise the sense
\* text is the whole text and the sense index is kept.
SenseItemSetsSenseOnly ==
    last.op = "sense_item" =>
        /\ Now = pre
        /\ err = ""
        /\ LET text == last.node.text
               indexed == {sp \in Splits(text) : EndsWithIndex(text, sp[1], sp[2])}
           IN IF indexed = {}
              THEN sense_text = text /\ sense_index = last.index_in
              ELSE \E sp \in indexed :
                      /\ sense_text = rstrip(sp[1], Whitespace)
                      /\ sense_index = int(sp[2])

\* a ";" item with an index after a list item that appended a linkage
SenseItemSetsSenseOnlyWitness ==
    /\ last.op = "sense_item"
    /\ last.node.text = <<"Sens D", "(", "sens", " ", "1", "2", ")">>
    /\ sense_text = <<"Sens D">>
    /\ sense_index = 12
    /\ last.index_in = 0
    /\ page_data[Len(page_data)].linkages["synonyms"] # <<>>

\* the linkages that the last step appended to the list of linkage_type
Appended ==
    LET n == Len(Now)
        old == pre[n].linkages[linkage_type]
        new == Now[n].linkages[linkage_type]
    IN SubSeq(new, Len(old) + 1, Len(new))

\* a list item step that ran to its end on a list the entry has
ItemDone ==
    /\ last.op = "linkage_item"
    /\ err = ""
    /\ linkage_type \in LinkageFields

\* the index a sense header gives: parameter 2 of a "(" template when it is a
\* number, the "(N)" or "(sens N)" at the end of a ";" item, otherwise 0
HeaderIndex(node) ==
    IF node.kind = "template"
    THEN IF "2" \in DOMAIN node.params /\ isdigit(node.params["2"])
         THEN int(node.params["2"]) ELSE 0
    ELSE LET indexed == {sp \in Splits(node.text) : EndsWithIndex(node.text, sp[1], sp[2])}
         IN IF indexed = {} THEN 0 ELSE int((CHOOSE sp \in indexed : TRUE)[2])

\* C15 (as claimed): after a sense header the sense index is the index that
\* header gives, and none (0) when it gives no index, whatever an earlier
\* header gave; the first linkage a list item appends carries the sense text
\* and the sense index of the most recent header, and no sense_index when
\* that index is none.
FirstLinkageCarriesLatestHeader ==
    /\ last.op \in {"sense_template", "sense_item"} =>
           sense_index = HeaderIndex(last.node)
    /\ (ItemDone /\ Appended # <<>>) =>
           /\ Appended[1].sense = sense_text
           /\ Appended[1].sense_index = sense_index

\* the part of C15 that the code keeps: the first linkage of a list item
\* carries the sense text and sense index held when the item is reached
FirstLinkageCarriesHeldSense ==
    (ItemDone /\ Appended # <<>>) =>
        /\ Appended[1].sense = sense_text
        /\ Appended[1].sense_index = sense_index

\* C16 (as claimed): all the linkages that one list item appends, those of
\* the words after a "," or "/" included, carry the sense and the sense
\* index of the first of them.
LinkagesOfItemShareSense ==
    ItemDone =>
        \A k \in 1..Len(Appended) :
            /\ Appended[k].sense = Appended[1].sense
            /\ Appended[k].sense_index = Appended[1].sense_index

\* a child of a list item that names a word: a link, a lien or zh-lien template
IsWordChild(c) ==
    \/ c.k = "link"
    \/ c.k = "template" /\ (c.name = <<"lien">> \/ startswith(c.name, <<"zh-lien">>))

\* the words of a list item, in the order they appear
WordsOf(node) ==
    LET words == SelectSeq(node.children, IsWordChild)
    IN [k \in 1..Len(words) |-> words[k].text]

\* the list item has two words with a string between them that holds "," or "/"
HasSeparatedWords(node) ==
    \E i, j, k \in 1..Len(node.children) :
        /\ i < j /\ j < k
        /\ IsWordChild(node.children[i]) /\ IsWordChild(node.children[k])
        /\ node.children[j].k = "str"
        /\ \E t \in 1..Len(node.children[j].text) : node.children[j].text[t] \in {",", "/"}

\* C17 (as claimed): a list item whose words are separated by "," or "/"
\* appends one linkage per word, in the order of the words in the item.
OneLinkagePerWord ==
    (ItemDone /\ HasSeparatedWords(last.node)) =>
        [k \in 1..Len(Appended) |-> Appended[k].word] = WordsOf(last.node)

\* the fragment starts with "(" and does not end with ")"
Opens(c) ==
    LET stripped == strip(c.text, Whitespace)
    IN startswith(stripped, <<"(">>) /\ ~endswith(stripped, <<")">>)

\* the fragment ends with ")"
Closes(c) == endswith(strip(c.text, Whitespace), <<")">>)

\* C18 (as claimed): in a list item that begins with its word, the fragments
\* from one that opens a parenthesis up to the next one that closes it are
\* joined, in order, into one of the texts that are split into tags.
ParenthesisJoinedWhole ==
    (/\ last.op = "linkage_item"
     /\ err = ""
     /\ last.node.children # <<>>
     /\ IsWordChild(Head(last.node.children))) =>
        LET children == last.node.children
        IN \A i, j \in 2..Len(children) :
               (/\ i < j
                /\ Opens(children[i])
                /\ Closes(children[j])
                /\ \A k \in (i + 1)..(j - 1) : ~Closes(children[k])) =>
                   \E t \in 1..Len(last.texts) :
                       last.texts[t] =
                           Concat([k \in 1..(j - i + 1) |-> children[i + k - 1].text])

\* C19 (as claimed): every linkage that a list item appends has a non-empty
\* word.
AppendedWordNonEmpty ==
    ItemDone => \A k \in 1..Len(Appended) : Appended[k].word # <<>>

(***************************************************************************)
(* Properties of parse_page.                                               *)
(***************************************************************************)
WithPos(records) == SelectSeq(records, LAMBDA r : r.pos # None)

\* C10 (as claimed): the returned list has exactly one record per
\* part-of-speech section, in page order, each with the word, the language
\* name and code and the part of speech of its section.
OneRecordPerSection ==
    pc = "done" =>
        /\ Len(result) = Len(sections)
        /\ \A i \in 1..Len(result) :
              /\ result[i].word = Word
              /\ result[i].lang = sections[i].lang.name
              /\ result[i].lang_code = sections[i].lang.code
              /\ result[i].pos = sections[i].pos

\* C10 (amended): the records of the returned list that have a pos are
\* exactly one per part-of-speech section, in page order, each with the
\* word, the language name and code and the part of speech of its section;
\* every other record has no pos and carries the word, the language name and
\* code and the zh-see redirects of a language section that has no
\* part-of-speech section.
OneRecordPerSectionOrRedirect ==
    pc = "done" =>
        /\ Len(WithPos(result)) = Len(sections)
        /\ \A i \in 1..Len(sections) :
              /\ WithPos(result)[i].word = Word
              /\ WithPos(result)[i].lang = sections[i].lang.name
              /\ WithPos(result)[i].lang_code = sections[i].lang.code
              /\ WithPos(result)[i].pos = sections[i].pos
        /\ \A i \in 1..Len(result) :
              result[i].pos = None =>
                 /\ result[i].word = Word
                 /\ \E lang \in Langs : /\ result[i].lang = lang.name
                                        /\ result[i].lang_code = lang.code
                 /\ result[i].redirects # <<>>

\* a page with a redirect-only language section followed by a language
\* section with a part-of-speech section
OneRecordPerSectionOrRedirectWitness ==
    /\ pc = "done"
    /\ Len(result) = 2
    /\ result[1].pos = None
    /\ result[1].lang_code = "ja"
    /\ result[2].pos = "noun"
    /\ result[2].lang_code = "fr"

\* the senses claimed for one top-level item of a gloss list
ExpectedSenses(item) ==
    IF item.children = <<>> THEN <<Sense(<<item.gloss>>, item.examples)>>
    ELSE [k \in 1..Len(item.children) |->
             Sense(<<item.gloss, item.children[k].gloss>>, item.children[k].examples)]
         \o (IF item.examples # <<>>
             THEN <<Sense(<<item.gloss>>, item.examples)>> ELSE <<>>)

\* C11: a top-level item of a gloss list adds, to the senses of the entry,
\* one sense per leaf item with the glosses from the top-level item down to
\* the leaf and the examples of the leaf, in list order, and then, when a
\* parent item has examples of its own, one sense with the parent's gloss
\* and examples only; nothing else changes.
NestedGlossSenses ==
    last.op = "gloss_item" =>
        LET n == Len(Now) IN
        /\ Len(Now) = Len(pre)
        /\ Now[n].senses = pre[n].senses \o ExpectedSenses(last.node)
        /\ Now = [pre EXCEPT ![n].senses = Now[n].senses]

\* a parent item with examples and two sub-items, after an earlier item
NestedGlossSensesWitness ==
    /\ last.op = "gloss_item"
    /\ last.node.examples # <<>>
    /\ Len(last.node.children) = 2
    /\ pre[Len(pre)].senses # <<>>
    /\ Len(Now[Len(Now)].senses) = Len(pre[Len(pre)].senses) + 3
    /\ Last(Now[Len(Now)].senses) = Sense(<<last.node.gloss>>, last.node.examples)

\* C12: after the head line of a section, the record of the entry has a
\* forms field exactly when the head-line word differs from the word of the
\* entry, and then its only form is the head-line word, tagged canonical.
CanonicalFormOfHeadLine ==
    last.op = "head_line" =>
        LET e == page_data[Len(page_data)]
            rec == record_of(e, heap[e.forms])
        IN IF last.node.word # e.word
           THEN /\ "forms" \in rec.keys
                /\ Len(rec.forms) = 1
                /\ rec.forms[1].form = last.node.word
                /\ \E k \in 1..Len(rec.forms[1].tags) : rec.forms[1].tags[k] = "canonical"
           ELSE "forms" \notin rec.keys

CanonicalFormOfHeadLineWitness ==
    /\ last.op = "head_line"
    /\ last.node.word = <<"foo">>
    /\ Now[Len(Now)].forms = <<Form(<<"foo">>, <<"canonical", "feminine">>, <<>>)>>

(***************************************************************************)
(* Properties of clean_value.                                              *)
(***************************************************************************)
IsFileLink(piece) ==
    /\ piece.kind = "link"
    /\ piece.prefix # <<>>
    /\ lower_namespace(piece.prefix[1]) \in {"file", "image"}

\* the display text of a link: its target when it has no bar, its target
\* without the prefix when nothing follows the bar, else the text after the bar
DisplayText(piece) ==
    IF piece.bars = <<>> THEN with_colons(piece.prefix) \o piece.target
    ELSE IF Last(piece.bars) = <<>> THEN piece.target
    ELSE Last(piece.bars)

RECURSIVE DisplayTexts(_, _)
DisplayTexts(pieces, RemoveFiles) ==
    IF pieces = <<>> THEN <<>>
    ELSE LET piece == Head(pieces) IN
         (IF piece.kind = "text" THEN piece.target
          ELSE IF RemoveFiles /\ IsFileLink(piece) THEN <<>>
          ELSE DisplayText(piece))
         \o DisplayTexts(Tail(pieces), RemoveFiles)

Next == NextForm \/ NextLinkage \/ NextPage \/ NextClean

Spec == Init /\ [][Next]_vars

====
